---- MODULE Spec2Model ----
(***************************************************************************)
(* Model of the deployment orchestrator (deploy.py) and of the API         *)
(* teardown helper (update_api.py).  The remote account (DynamoDB, IAM,    *)
(* S3, Lambda, API Gateway) and the local disk are the state; every remote *)
(* call of the script is one action whose outcome (success, the            *)
(* recoverable "already exists" answer, or any other error) is chosen by   *)
(* the remote side.                                                        *)
(* The record service (backend/main.py) has its own state and its own      *)
(* specification, SpecService: every DynamoDB call of a request handler is *)
(* one action, so that the handlers of concurrent requests interleave.     *)
(***************************************************************************)
EXTENDS Integers, Sequences, FiniteSets, TLC

\* ---------------------------------------------------------------- bounds
MaxRequests == 4
MaxEvents == 2
MaxRuns == 2            \* deploy runs started in one behaviour
MaxTeardowns == 1       \* teardown helper runs in one behaviour
MaxFaults == 1          \* calls answered with an error in one behaviour

\* ------------------------------------------------------ program constants
table_name == "EventsTable"                  \* deploy.py:66
role_name == "EventsApiLambdaRole"           \* deploy.py:88
function_name == "EventsApiFunction"         \* deploy.py:149
api_name == "EventsApi"                      \* deploy.py:254
zip_path == "lambda_function.zip"            \* deploy.py:46
s3_key == "lambda_function.zip"              \* deploy.py:172
statement_id == "apigateway-invoke"          \* deploy.py:324
gateway_principal == "apigateway.amazonaws.com" \* deploy.py:326
proxy_path == "{proxy+}"
stage_name == "prod"                         \* deploy.py:314
LimitMb == 50
\* get_rest_apis without a limit answers with one page of at most 25 items.
PageLimit == 25                                \* deploy.py:156
BytesPerMb == 1048576                        \* deploy.py:153  (1024 * 1024)

\* ------------------------------------------------------------ input sets
Releases == {1, 2}      \* release r deploys environment map r and archive content r
Sizes == {52428799, 52428800, 52428801}      \* size of the built archive

NoneArn == <<>>                              \* Python's None where an ARN is expected
NoUrl == <<>>
DynamoDBActions == {"dynamodb:PutItem", "dynamodb:GetItem", "dynamodb:UpdateItem",
                    "dynamodb:DeleteItem", "dynamodb:Scan"}
NoPolicy == [actions |-> {}, resource |-> ""]
NoFile == [exists |-> FALSE, content |-> 0, size |-> 0]
NoCode == [kind |-> "none", content |-> 0, bucket |-> 0, key |-> ""]
NoMethod == [verb |-> "", auth |-> ""]
NoIntegration == [type |-> "", uri |-> <<>>]
\* Record service: clients sending requests at the same time, event ids, the
\* attributes create_event writes, and the bodies of an update request.
Clients == {1, 2}
EventIds == 1..MaxEvents
EventFields == {"eventId", "title", "descriptions", "date", "location", "capacity",
                "organizer", "status", "createdAt"}
Updates == {{}, {"title"}, {"capacity", "status"}}
NoItem == {}
NoRequest == [op |-> "", id |-> 0, fields |-> {}, at |-> "idle", status |-> 0]
NoInput == [env |-> 0, art |-> 0, size |-> 0]

VARIABLES
    pc,            \* position of the running script
    run,           \* number of deploy runs started
    now,           \* int(time.time())
    inp,           \* what this run deploys: environment, archive content, size
    \* remote account
    tables, roles, buckets, objects, functions, permissions, apis, nextApiId,
    \* local disk
    zipFile, tempDir,
    \* locals of main / the provisioners
    role_arn, bucket_name, code, lambda_arn, api_id, api_url, tdItems,
    \* history
    stageLog,      \* stages started in this run, in order
    calls,         \* remote calls issued in this run, in order
    resp,          \* answer of the last remote call
    fatal,         \* a call of this run ended in a non-recoverable error
    hist,          \* counters and snapshots over the whole behaviour
    \* record service (backend/main.py)
    table,         \* items of EventsTable by eventId, each the set of its attributes
    req,           \* per client: the request being handled and the last answer
    issued,        \* event ids handed out by uuid4 so far
    served         \* requests received so far

remote == <<tables, roles, buckets, objects, functions, permissions, apis, nextApiId>>
disk == <<zipFile, tempDir>>
locals == <<role_arn, bucket_name, code, lambda_arn, api_id, api_url>>
service == <<table, req, issued, served>>
vars == <<pc, run, now, inp, remote, disk, locals, tdItems, stageLog, calls, resp,
          fatal, hist, service>>

\* The record service before its first request: no item, no request in flight.
InitService ==
    /\ table = [i \in EventIds |-> NoItem]
    /\ req = [c \in Clients |-> NoRequest]
    /\ issued = 0
    /\ served = 0

Idle == {"idle", "done", "failed", "td_done", "td_failed"}

StageOrder == <<"table", "role", "build", "delivery", "function", "gateway">>

Init ==
    /\ pc = "idle"
    /\ run = 0
    /\ now = 1
    /\ inp = NoInput
    /\ tables = {}
    /\ roles = {}
    /\ buckets = {}
    /\ objects = {}
    /\ functions = {}
    /\ permissions = {}
    /\ apis = {[id |-> 1, name |-> "OtherApi", rootMethod |-> NoMethod, rootInt |-> NoIntegration,
                proxy |-> "", proxyMethod |-> NoMethod, proxyInt |-> NoIntegration,
                stage |-> ""]}
    /\ nextApiId = 2
    /\ zipFile = NoFile
    /\ tempDir = FALSE
    /\ role_arn = NoneArn
    /\ code = NoCode
    /\ lambda_arn = NoneArn
    /\ bucket_name = 0
    /\ api_id = 0
    /\ api_url = NoUrl
    /\ tdItems = <<>>
    /\ stageLog = <<>>
    /\ calls = <<>>
    /\ resp = ""
    /\ fatal = FALSE
    /\ hist = [faults |-> 0, roleArns |-> {}, apiCreates |-> 0, urls |-> <<>>, teardowns |-> 0,
               leaked |-> FALSE, delayed |-> {}, fnAtStart |-> {},
               bucketsAtStart |-> {}, objectsAtStart |-> {}, apisAtStart |-> {},
               permsAtStart |-> {}, afterTeardown |-> FALSE]
    /\ InitService

\* An API as create_rest_api leaves it.
BareApi(i, n) ==
    [id |-> i, name |-> n, rootMethod |-> NoMethod, rootInt |-> NoIntegration,
     proxy |-> "", proxyMethod |-> NoMethod, proxyInt |-> NoIntegration, stage |-> ""]

\* The scripts started on an account that already holds the APIs A and the
\* functions F.
InitFrom(A, F) ==
    /\ pc = "idle"
    /\ run = 0
    /\ now = 1
    /\ inp = NoInput
    /\ tables = {}
    /\ roles = {}
    /\ buckets = {}
    /\ objects = {}
    /\ functions = F
    /\ permissions = {}
    /\ apis = A
    /\ nextApiId = Cardinality(A) + 1
    /\ zipFile = NoFile
    /\ tempDir = FALSE
    /\ role_arn = NoneArn
    /\ code = NoCode
    /\ lambda_arn = NoneArn
    /\ bucket_name = 0
    /\ api_id = 0
    /\ api_url = NoUrl
    /\ tdItems = <<>>
    /\ stageLog = <<>>
    /\ calls = <<>>
    /\ resp = ""
    /\ fatal = FALSE
    /\ hist = [faults |-> 0, roleArns |-> {}, urls |-> <<>>,
               apiCreates |-> Cardinality({a \in A : a.name = api_name}),
               teardowns |-> 0, leaked |-> FALSE, delayed |-> {}, fnAtStart |-> {},
               bucketsAtStart |-> {}, objectsAtStart |-> {}, apisAtStart |-> {},
               permsAtStart |-> {}, afterTeardown |-> FALSE]
    /\ InitService

\* An account in which earlier deploy runs left more APIs named EventsApi
\* behind than one page of get_rest_apis holds.
InitLeftovers ==
    InitFrom({BareApi(1, "OtherApi")}
                 \cup {BareApi(i, api_name) : i \in 2..(PageLimit + 2)}, {})

\* An account in which release 1 of the function is deployed.
InitDeployed ==
    InitFrom({BareApi(1, "OtherApi")},
             {[name |-> function_name, role |-> <<"arn:aws:iam", "role", "EventsLambdaRole">>,
               code |-> 1, env |-> 1, handler |-> "lambda_handler.handler"]})

\* --------------------------------------------------------------- helpers
\* Positions of main between the return of create_lambda_zip and os.remove.
AfterBuild == {"select_delivery", "create_bucket", "upload_file", "create_function",
               "update_function_code", "update_function_configuration",
               "create_rest_api", "get_resources", "put_method_root",
               "put_integration_root", "create_resource", "put_method_proxy",
               "put_integration_proxy", "create_deployment", "get_caller_identity",
               "add_permission", "cleanup"}

\* A remote call returned `answer`; the script goes on at `next`.
Returned(call, answer, next) ==
    /\ calls' = Append(calls, call)
    /\ resp' = answer
    /\ pc' = next
    /\ fatal' = fatal

\* A remote call raised an error the script does not catch: the run dies.
Raised(call) ==
    /\ hist.faults < MaxFaults
    /\ calls' = Append(calls, call)
    /\ resp' = "error"
    /\ pc' = "failed"
    /\ fatal' = TRUE
    /\ hist' = [hist EXCEPT !.faults = @ + 1, !.leaked = @ \/ pc \in AfterBuild]

\* ------------------------------------------------------------------ main
StartRun ==
    /\ pc \in Idle
    /\ run < MaxRuns
    /\ \E r \in Releases, s \in Sizes :
           inp' = [env |-> r, art |-> r, size |-> s]
    /\ run' = run + 1
    /\ now' = now + 1
    /\ pc' = "create_table"
    /\ role_arn' = NoneArn /\ code' = NoCode /\ lambda_arn' = NoneArn
    /\ bucket_name' = 0 /\ api_id' = 0 /\ api_url' = NoUrl
    /\ stageLog' = <<>> /\ calls' = <<>> /\ resp' = "" /\ fatal' = FALSE
    /\ hist' = [hist EXCEPT !.fnAtStart = functions, !.bucketsAtStart = buckets,
                            !.objectsAtStart = objects, !.apisAtStart = apis,
                            !.permsAtStart = permissions,
                            !.afterTeardown = (pc = "td_done")]
    /\ UNCHANGED <<remote, disk, tdItems>>
    /\ UNCHANGED service

\* -------------------------------------------------- create_dynamodb_table
ActivateTable ==
    /\ \E t \in tables :
           /\ t.status = "CREATING"
           /\ tables' = (tables \ {t}) \cup {[t EXCEPT !.status = "ACTIVE"]}
    /\ UNCHANGED <<pc, run, now, inp, roles, buckets, objects, functions, permissions,
                   apis, nextApiId, disk, locals, tdItems, stageLog, calls, resp, fatal,
                   hist>>
    /\ UNCHANGED service

\* A provisioner that lets the "already exists" answer escape: the run dies.
TableInUse_Uncaught ==
    /\ calls' = Append(calls, "create_table")
    /\ resp' = "ResourceInUseException"
    /\ pc' = "failed"
    /\ fatal' = TRUE

\* except ResourceInUseException: print, fall off the end of the function.
TableInUse == Returned("create_table", "ResourceInUseException", "create_role")

CreateTable ==
    /\ pc = "create_table"
    /\ stageLog' = Append(stageLog, "table")
    /\ \/ /\ \A t \in tables : t.name # table_name
          /\ tables' = tables \cup {[name |-> table_name, key |-> "eventId",
                                     billing |-> "PAY_PER_REQUEST",
                                     status |-> "CREATING"]}
          /\ Returned("create_table", "ok", "wait_table")
          /\ UNCHANGED hist
       \/ /\ \E t \in tables : t.name = table_name
          /\ TableInUse
          /\ UNCHANGED <<tables, hist>>
       \/ /\ Raised("create_table")
          /\ UNCHANGED tables
    /\ UNCHANGED <<run, now, inp, roles, buckets, objects, functions, permissions, apis,
                   nextApiId, disk, locals, tdItems>>
    /\ UNCHANGED service

WaitTable ==
    /\ pc = "wait_table"
    /\ \/ /\ \E t \in tables : t.name = table_name /\ t.status = "ACTIVE"
          /\ Returned("wait_table_exists", "ok", "create_role")
          /\ UNCHANGED hist
       \/ Raised("wait_table_exists")
    /\ UNCHANGED <<run, now, inp, remote, disk, locals, tdItems, stageLog>>
    /\ UNCHANGED service


\* ----------------------------------------------------- create_lambda_role
RoleArn(name) == <<"arn:aws:iam", "role", name>>

SetRole(field, value) ==
    roles' = {IF r.name = role_name THEN [r EXCEPT ![field] = value] ELSE r : r \in roles}

\* The provisioner hands `arn` back to main, which goes on to create_lambda_zip.
ReturnRole(arn) ==
    /\ role_arn' = arn
    /\ hist' = [hist EXCEPT !.roleArns = @ \cup {arn}]

\* A handler that returns without fetching the existing role.
RoleAlreadyExists_NoFetch ==
    /\ calls' = Append(calls, "create_role")
    /\ resp' = "EntityAlreadyExistsException"
    /\ pc' = "pip_install"
    /\ fatal' = fatal

\* except EntityAlreadyExistsException: print, go on to get_role.
RoleAlreadyExists == Returned("create_role", "EntityAlreadyExistsException", "get_role")

CreateRole ==
    /\ pc = "create_role"
    /\ stageLog' = Append(stageLog, "role")
    /\ \/ /\ \A r \in roles : r.name # role_name
          /\ roles' = roles \cup {[name |-> role_name, arn |-> RoleArn(role_name),
                                   trust |-> "lambda.amazonaws.com",
                                   managed |-> {}, inline |-> NoPolicy]}
          /\ role_arn' = RoleArn(role_name)
          /\ Returned("create_role", "ok", "attach_role_policy")
          /\ UNCHANGED hist
       \/ /\ \E r \in roles : r.name = role_name
          /\ RoleAlreadyExists
          /\ UNCHANGED <<roles, role_arn, hist>>
       \/ /\ Raised("create_role")
          /\ UNCHANGED <<roles, role_arn>>
    /\ UNCHANGED <<run, now, inp, tables, buckets, objects, functions, permissions, apis,
                   nextApiId, disk, bucket_name, code, lambda_arn, api_id, api_url,
                   tdItems>>
    /\ UNCHANGED service

AttachRolePolicy ==
    /\ pc = "attach_role_policy"
    /\ \/ /\ SetRole("managed", {"AWSLambdaBasicExecutionRole"})
          /\ Returned("attach_role_policy", "ok", "put_role_policy")
          /\ UNCHANGED hist
       \/ /\ Raised("attach_role_policy")
          /\ UNCHANGED roles
    /\ UNCHANGED <<run, now, inp, tables, buckets, objects, functions, permissions, apis,
                   nextApiId, disk, locals, tdItems, stageLog>>
    /\ UNCHANGED service

PutRolePolicy ==
    /\ pc = "put_role_policy"
    /\ \/ /\ SetRole("inline", [actions |-> DynamoDBActions, resource |-> table_name])
          /\ Returned("put_role_policy", "ok", "sleep")
          /\ UNCHANGED hist
       \/ /\ Raised("put_role_policy")
          /\ UNCHANGED roles
    /\ UNCHANGED <<run, now, inp, tables, buckets, objects, functions, permissions, apis,
                   nextApiId, disk, locals, tdItems, stageLog>>
    /\ UNCHANGED service

\* A provisioner that returns the reference without waiting.
SleepPropagation_Skipped ==
    /\ pc = "sleep"
    /\ pc' = "pip_install"
    /\ role_arn' = role_arn
    /\ hist' = [hist EXCEPT !.roleArns = @ \cup {role_arn}]
    /\ UNCHANGED <<run, now, inp, remote, disk, bucket_name, code, lambda_arn, api_id,
                   api_url, tdItems, stageLog, calls, resp, fatal>>
    /\ UNCHANGED service

\* time.sleep(10); return role_arn
SleepPropagation ==
    /\ pc = "sleep"
    /\ pc' = "pip_install"
    /\ role_arn' = role_arn
    /\ hist' = [hist EXCEPT !.roleArns = @ \cup {role_arn},
                            !.delayed = @ \cup {role_arn}]
    /\ UNCHANGED <<run, now, inp, remote, disk, bucket_name, code, lambda_arn, api_id,
                   api_url, tdItems, stageLog, calls, resp, fatal>>
    /\ UNCHANGED service

GetRole ==
    /\ pc = "get_role"
    /\ \/ /\ \E r \in roles :
                /\ r.name = role_name
                /\ ReturnRole(r.arn)
          /\ Returned("get_role", "ok", "pip_install")
       \/ /\ Raised("get_role")
          /\ UNCHANGED role_arn
    /\ UNCHANGED <<run, now, inp, remote, disk, bucket_name, code, lambda_arn, api_id,
                   api_url, tdItems, stageLog>>
    /\ UNCHANGED service

\* ------------------------------------------------------ create_lambda_zip
\* subprocess.run without check=True: a failed install goes unnoticed.
PipInstall_Unchecked ==
    /\ pc = "pip_install"
    /\ stageLog' = Append(stageLog, "build")
    /\ tempDir' = TRUE
    /\ \/ /\ pc' = "make_archive"
          /\ UNCHANGED <<fatal, hist>>
       \/ /\ hist.faults < MaxFaults
          /\ hist' = [hist EXCEPT !.faults = @ + 1]
          /\ pc' = "make_archive"
          /\ fatal' = TRUE
    /\ UNCHANGED <<run, now, inp, remote, zipFile, locals, tdItems, calls, resp>>
    /\ UNCHANGED service

PipInstall ==
    /\ pc = "pip_install"
    /\ stageLog' = Append(stageLog, "build")
    /\ tempDir' = TRUE
    /\ \/ /\ pc' = "make_archive"
          /\ UNCHANGED <<fatal, hist>>
       \/ /\ hist.faults < MaxFaults
          /\ hist' = [hist EXCEPT !.faults = @ + 1]
          /\ pc' = "failed"
          /\ fatal' = TRUE
    /\ UNCHANGED <<run, now, inp, remote, zipFile, locals, tdItems, calls, resp>>
    /\ UNCHANGED service

MakeArchive ==
    /\ pc = "make_archive"
    /\ zipFile' = [exists |-> TRUE, content |-> inp.art, size |-> inp.size]
    /\ tempDir' = FALSE
    /\ pc' = "select_delivery"
    /\ UNCHANGED <<run, now, inp, remote, locals, tdItems, stageLog, calls, resp, fatal,
                   hist>>
    /\ UNCHANGED service

\* ------------------------------------------------ create_or_update_lambda
\* size_mb = file_size / (1024 * 1024) is a float; dividing an integer below
\* 2^53 by a power of two is exact, so size_mb is the rational num/den.
SizeMb(file_size) == [num |-> file_size, den |-> BytesPerMb]

\* The comparison written as size_mb >= 50.
ExceedsLimit_Inclusive(file_size) ==
    SizeMb(file_size).num >= LimitMb * SizeMb(file_size).den

\* size_mb > 50
ExceedsLimit(file_size) == SizeMb(file_size).num > LimitMb * SizeMb(file_size).den

InlineCode(content) == [kind |-> "ZipFile", content |-> content, bucket |-> 0, key |-> ""]
StagedCode(bucket, key) == [kind |-> "S3", content |-> 0, bucket |-> bucket, key |-> key]

\* The archive the compute service stores for a code reference.
Resolve(c) ==
    IF c.kind = "ZipFile" THEN c.content
    ELSE (CHOOSE o \in objects : o.bucket = c.bucket /\ o.key = c.key).content

FunctionArn(name) == <<"arn:aws:lambda", "function", name>>

SelectDelivery ==
    /\ pc = "select_delivery"
    /\ stageLog' = Append(stageLog, "delivery")
    /\ IF ExceedsLimit(zipFile.size)
       THEN /\ bucket_name' = now
            /\ pc' = "create_bucket"
            /\ UNCHANGED code
       ELSE /\ code' = InlineCode(zipFile.content)
            /\ pc' = "create_function"
            /\ UNCHANGED bucket_name
    /\ UNCHANGED <<run, now, inp, remote, disk, role_arn, lambda_arn, api_id, api_url,
                   tdItems, calls, resp, fatal, hist>>
    /\ UNCHANGED service

\* except Exception: print, return None; main goes on to create_api_gateway(None).
BucketFailed ==
    /\ hist.faults < MaxFaults
    /\ hist' = [hist EXCEPT !.faults = @ + 1]
    /\ calls' = Append(calls, "create_bucket")
    /\ resp' = "error"
    /\ fatal' = TRUE
    /\ lambda_arn' = NoneArn
    /\ pc' = "create_rest_api"

CreateBucket ==
    /\ pc = "create_bucket"
    /\ \/ /\ bucket_name \notin buckets
          /\ buckets' = buckets \cup {bucket_name}
          /\ Returned("create_bucket", "ok", "upload_file")
          /\ UNCHANGED <<lambda_arn, hist>>
       \/ /\ BucketFailed
          /\ UNCHANGED buckets
    /\ UNCHANGED <<run, now, inp, tables, roles, objects, functions, permissions, apis,
                   nextApiId, disk, role_arn, bucket_name, code, api_id, api_url, tdItems,
                   stageLog>>
    /\ UNCHANGED service

\* A provisioner that removes the staging bucket when the upload fails.
UploadFile_Rollback ==
    /\ pc = "upload_file"
    /\ \/ /\ objects' = {o \in objects : ~(o.bucket = bucket_name /\ o.key = s3_key)}
                        \cup {[bucket |-> bucket_name, key |-> s3_key,
                               content |-> zipFile.content]}
          /\ code' = StagedCode(bucket_name, s3_key)
          /\ Returned("upload_file", "ok", "create_function")
          /\ UNCHANGED <<hist, buckets>>
       \/ /\ Raised("upload_file")
          /\ buckets' = buckets \ {bucket_name}
          /\ UNCHANGED <<objects, code>>
    /\ UNCHANGED <<run, now, inp, tables, roles, functions, permissions, apis,
                   nextApiId, disk, role_arn, bucket_name, lambda_arn, api_id, api_url,
                   tdItems, stageLog>>
    /\ UNCHANGED service

UploadFile ==
    /\ pc = "upload_file"
    /\ \/ /\ objects' = {o \in objects : ~(o.bucket = bucket_name /\ o.key = s3_key)}
                        \cup {[bucket |-> bucket_name, key |-> s3_key,
                               content |-> zipFile.content]}
          /\ code' = StagedCode(bucket_name, s3_key)
          /\ Returned("upload_file", "ok", "create_function")
          /\ UNCHANGED hist
       \/ /\ Raised("upload_file")
          /\ UNCHANGED <<objects, code>>
    /\ UNCHANGED <<run, now, inp, tables, roles, buckets, functions, permissions, apis,
                   nextApiId, disk, role_arn, bucket_name, lambda_arn, api_id, api_url,
                   tdItems, stageLog>>
    /\ UNCHANGED service

SetFunction(field, value) ==
    functions' = {IF f.name = function_name THEN [f EXCEPT ![field] = value] ELSE f :
                  f \in functions}

CreateFunction ==
    /\ pc = "create_function"
    /\ stageLog' = Append(stageLog, "function")
    /\ \/ /\ \A f \in functions : f.name # function_name
          /\ functions' = functions \cup
                 {[name |-> function_name, role |-> role_arn, code |-> Resolve(code),
                   env |-> inp.env, handler |-> "lambda_handler.handler"]}
          /\ lambda_arn' = FunctionArn(function_name)
          /\ Returned("create_function", "ok", "create_rest_api")
          /\ UNCHANGED hist
       \/ /\ \E f \in functions : f.name = function_name
          /\ Returned("create_function", "ResourceConflictException",
                      "update_function_code")
          /\ UNCHANGED <<functions, lambda_arn, hist>>
       \/ /\ Raised("create_function")
          /\ UNCHANGED <<functions, lambda_arn>>
    /\ UNCHANGED <<run, now, inp, tables, roles, buckets, objects, permissions, apis,
                   nextApiId, disk, role_arn, bucket_name, code, api_id, api_url,
                   tdItems>>
    /\ UNCHANGED service

\* An update path that leaves the code as it was.
PushCode_Stale == UNCHANGED functions

\* update_function_code(ZipFile = ...) or (S3Bucket = ..., S3Key = ...)
PushCode == SetFunction("code", Resolve(code))

UpdateFunctionCode ==
    /\ pc = "update_function_code"
    /\ \/ /\ PushCode
          /\ lambda_arn' = FunctionArn(function_name)
          /\ Returned("update_function_code", "ok", "update_function_configuration")
          /\ UNCHANGED hist
       \/ /\ Raised("update_function_code")
          /\ UNCHANGED <<functions, lambda_arn>>
    /\ UNCHANGED <<run, now, inp, tables, roles, buckets, objects, permissions, apis,
                   nextApiId, disk, role_arn, bucket_name, code, api_id, api_url,
                   tdItems, stageLog>>
    /\ UNCHANGED service

\* An update path that leaves the environment as it was.
PushConfiguration_Stale == UNCHANGED functions

\* update_function_configuration(Environment = ...)
PushConfiguration == SetFunction("env", inp.env)

UpdateFunctionConfiguration ==
    /\ pc = "update_function_configuration"
    /\ \/ /\ PushConfiguration
          /\ Returned("update_function_configuration", "ok", "create_rest_api")
          /\ UNCHANGED hist
       \/ /\ Raised("update_function_configuration")
          /\ UNCHANGED functions
    /\ UNCHANGED <<run, now, inp, tables, roles, buckets, objects, permissions, apis,
                   nextApiId, disk, locals, tdItems, stageLog>>
    /\ UNCHANGED service

\* ----------------------------------------------------- create_api_gateway
LambdaUri(arn) == <<"arn:aws:apigateway:us-west-2:lambda:path/2015-03-31/functions", arn,
                    "invocations">>

\* put_method(httpMethod = 'ANY', authorizationType = 'NONE')
AnyOpenMethod == [verb |-> "ANY", auth |-> "NONE"]

\* put_integration(type = 'AWS_PROXY', uri = lambda_uri)
ProxyIntegration(arn) == [type |-> "AWS_PROXY", uri |-> LambdaUri(arn)]

ApiUrl(id) == <<"https", id, "execute-api.us-west-2.amazonaws.com", stage_name>>

SetApi(field, value) ==
    apis' = {IF a.id = api_id THEN [a EXCEPT ![field] = value] ELSE a : a \in apis}

\* One call of the provisioner on the API it created: answered or raised.
ApiCall(call, next, field, value) ==
    /\ \/ /\ \E a \in apis : a.id = api_id
          /\ SetApi(field, value)
          /\ Returned(call, "ok", next)
          /\ UNCHANGED hist
       \/ /\ Raised(call)
          /\ UNCHANGED apis
    /\ UNCHANGED <<run, now, inp, tables, roles, buckets, objects, functions, permissions,
                   nextApiId, disk, locals, tdItems, stageLog>>

\* A provisioner that adopts an API of the same name when there is one.
CreateRestApi_Adopt ==
    /\ pc = "create_rest_api"
    /\ stageLog' = Append(stageLog, "gateway")
    /\ \/ /\ IF \E a \in apis : a.name = api_name
             THEN /\ api_id' = (CHOOSE a \in apis : a.name = api_name).id
                  /\ UNCHANGED <<apis, nextApiId>>
             ELSE /\ apis' = apis \cup {[id |-> nextApiId, name |-> api_name,
                                         rootMethod |-> NoMethod, rootInt |-> NoIntegration,
                                         proxy |-> "", proxyMethod |-> NoMethod,
                                         proxyInt |-> NoIntegration, stage |-> ""]}
                  /\ nextApiId' = nextApiId + 1
                  /\ api_id' = nextApiId
          /\ Returned("create_rest_api", "ok", "get_resources")
          /\ hist' = [hist EXCEPT !.apiCreates = @ + 1]
       \/ /\ Raised("create_rest_api")
          /\ UNCHANGED <<apis, nextApiId, api_id>>
    /\ UNCHANGED <<run, now, inp, tables, roles, buckets, objects, functions, permissions,
                   disk, role_arn, bucket_name, code, lambda_arn, api_url, tdItems>>
    /\ UNCHANGED service

CreateRestApi ==
    /\ pc = "create_rest_api"
    /\ stageLog' = Append(stageLog, "gateway")
    /\ \/ /\ apis' = apis \cup {[id |-> nextApiId, name |-> api_name,
                                 rootMethod |-> NoMethod, rootInt |-> NoIntegration,
                                 proxy |-> "", proxyMethod |-> NoMethod,
                                 proxyInt |-> NoIntegration, stage |-> ""]}
          /\ nextApiId' = nextApiId + 1
          /\ api_id' = nextApiId
          /\ Returned("create_rest_api", "ok", "get_resources")
          /\ hist' = [hist EXCEPT !.apiCreates = @ + 1]
       \/ /\ Raised("create_rest_api")
          /\ UNCHANGED <<apis, nextApiId, api_id>>
    /\ UNCHANGED <<run, now, inp, tables, roles, buckets, objects, functions, permissions,
                   disk, role_arn, bucket_name, code, lambda_arn, api_url, tdItems>>
    /\ UNCHANGED service

GetResources ==
    /\ pc = "get_resources"
    /\ \/ /\ \E a \in apis : a.id = api_id
          /\ Returned("get_resources", "ok", "put_method_root")
          /\ UNCHANGED hist
       \/ Raised("get_resources")
    /\ UNCHANGED <<run, now, inp, remote, disk, locals, tdItems, stageLog>>
    /\ UNCHANGED service

\* A provisioner that goes from the root method straight to the child resource.
PutMethodRoot_NoIntegration ==
    /\ pc = "put_method_root"
    /\ ApiCall("put_method(root)", "create_resource", "rootMethod", AnyOpenMethod)
    /\ UNCHANGED service

PutMethodRoot ==
    /\ pc = "put_method_root"
    /\ ApiCall("put_method(root)", "put_integration_root", "rootMethod", AnyOpenMethod)
    /\ UNCHANGED service

\* With lambda_arn None the uri names no function: the service may take the
\* string as it is or reject the request.
PutIntegrationRoot ==
    /\ pc = "put_integration_root"
    /\ \/ ApiCall("put_integration(root)", "create_resource", "rootInt",
                  ProxyIntegration(lambda_arn))
       \/ /\ lambda_arn = NoneArn
          /\ calls' = Append(calls, "put_integration(root)")
          /\ resp' = "BadRequestException"
          /\ pc' = "failed"
          /\ fatal' = TRUE
          /\ hist' = [hist EXCEPT !.leaked = TRUE]
          /\ UNCHANGED <<run, now, inp, remote, disk, locals, tdItems, stageLog>>
    /\ UNCHANGED service

CreateResource ==
    /\ pc = "create_resource"
    /\ ApiCall("create_resource", "put_method_proxy", "proxy", proxy_path)
    /\ UNCHANGED service

PutMethodProxy ==
    /\ pc = "put_method_proxy"
    /\ ApiCall("put_method(proxy)", "put_integration_proxy", "proxyMethod", AnyOpenMethod)
    /\ UNCHANGED service

\* A provisioner that leaves the child resource without integration.
PutIntegrationProxy_Omitted ==
    /\ pc = "put_integration_proxy"
    /\ ApiCall("put_integration(proxy)", "create_deployment", "proxyInt", NoIntegration)
    /\ UNCHANGED service

PutIntegrationProxy ==
    /\ pc = "put_integration_proxy"
    /\ ApiCall("put_integration(proxy)", "create_deployment", "proxyInt",
               ProxyIntegration(lambda_arn))
    /\ UNCHANGED service

CreateDeployment ==
    /\ pc = "create_deployment"
    /\ ApiCall("create_deployment", "get_caller_identity", "stage", stage_name)
    /\ UNCHANGED service

GetCallerIdentity ==
    /\ pc = "get_caller_identity"
    /\ \/ /\ Returned("get_caller_identity", "ok", "add_permission")
          /\ UNCHANGED hist
       \/ Raised("get_caller_identity")
    /\ UNCHANGED <<run, now, inp, remote, disk, locals, tdItems, stageLog>>
    /\ UNCHANGED service

\* Lines 332-336: the provisioner assembles the URL and returns it to main.
ReturnUrl ==
    /\ api_url' = ApiUrl(api_id)
    /\ hist' = [hist EXCEPT !.urls = Append(@, ApiUrl(api_id))]

HasStatement(fn, sid) == \E p \in permissions : p.function = fn /\ p.sid = sid

\* A provisioner that lets the permission conflict escape: the run dies.
PermissionExists_Uncaught ==
    /\ calls' = Append(calls, "add_permission")
    /\ resp' = "ResourceConflictException"
    /\ pc' = "failed"
    /\ fatal' = TRUE

\* except ResourceConflictException: print "Permission already exists", go on.
PermissionExists == Returned("add_permission", "ResourceConflictException", "cleanup")

AddPermission ==
    /\ pc = "add_permission"
    /\ \/ /\ \E f \in functions : f.name = function_name
          /\ ~HasStatement(function_name, statement_id)
          /\ permissions' = permissions \cup
                 {[function |-> function_name, sid |-> statement_id,
                   principal |-> gateway_principal, sourceApi |-> api_id]}
          /\ Returned("add_permission", "ok", "cleanup")
          /\ ReturnUrl
       \/ /\ HasStatement(function_name, statement_id)
          /\ PermissionExists
          /\ ReturnUrl
          /\ UNCHANGED permissions
       \/ /\ \A f \in functions : f.name # function_name
          /\ calls' = Append(calls, "add_permission")
          /\ resp' = "ResourceNotFoundException"
          /\ pc' = "failed"
          /\ fatal' = TRUE
          /\ hist' = [hist EXCEPT !.leaked = TRUE]
          /\ UNCHANGED <<permissions, api_url>>
       \/ /\ Raised("add_permission")
          /\ UNCHANGED <<permissions, api_url>>
    /\ UNCHANGED <<run, now, inp, tables, roles, buckets, objects, functions, apis,
                   nextApiId, disk, role_arn, bucket_name, code, lambda_arn, api_id,
                   tdItems, stageLog>>
    /\ UNCHANGED service

\* ------------------------------------------------------- main, lines 356-360
\* A driver that reports completion without removing the archive.
Cleanup_Forgotten ==
    /\ pc = "cleanup"
    /\ pc' = "done"
    /\ UNCHANGED <<run, now, inp, remote, disk, locals, tdItems, stageLog, calls, resp,
                   fatal, hist>>
    /\ UNCHANGED service

Cleanup ==
    /\ pc = "cleanup"
    /\ zipFile' = NoFile
    /\ pc' = "done"
    /\ UNCHANGED <<run, now, inp, remote, tempDir, locals, tdItems, stageLog, calls, resp,
                   fatal, hist>>
    /\ UNCHANGED service

\* ------------------------------------------------------------ update_api.py
\* get_rest_apis answers with the APIs as a list, here in order of creation.
\* The first page of a listing.
Page(s) == SubSeq(s, 1, IF Len(s) < PageLimit THEN Len(s) ELSE PageLimit)

RECURSIVE Listed(_)
Listed(S) ==
    IF S = {} THEN <<>>
    ELSE LET a == CHOOSE x \in S : \A y \in S : x.id <= y.id
         IN <<[id |-> a.id, name |-> a.name]>> \o Listed(S \ {a})

TdList ==
    /\ pc \in Idle
    /\ hist.teardowns < MaxTeardowns
    /\ \/ /\ tdItems' = Page(Listed(apis))
          /\ pc' = "td_loop"
          /\ hist' = [hist EXCEPT !.teardowns = @ + 1]
       \/ /\ hist.faults < MaxFaults
          /\ pc' = "td_failed"
          /\ hist' = [hist EXCEPT !.teardowns = @ + 1, !.faults = @ + 1]
          /\ UNCHANGED tdItems
    /\ role_arn' = NoneArn /\ code' = NoCode /\ lambda_arn' = NoneArn
    /\ bucket_name' = 0 /\ api_id' = 0 /\ api_url' = NoUrl
    /\ inp' = NoInput
    /\ stageLog' = <<>> /\ calls' = <<>> /\ resp' = "" /\ fatal' = FALSE
    /\ UNCHANGED <<run, now, remote, disk>>
    /\ UNCHANGED service

TdDelete ==
    /\ pc = "td_loop"
    /\ tdItems # <<>>
    /\ Head(tdItems).name = api_name
    /\ \/ /\ apis' = {a \in apis : a.id # Head(tdItems).id}
          /\ tdItems' = Tail(tdItems)
          /\ pc' = "td_loop"
          /\ UNCHANGED hist
       \/ /\ hist.faults < MaxFaults
          /\ hist' = [hist EXCEPT !.faults = @ + 1]
          /\ pc' = "td_failed"
          /\ UNCHANGED <<apis, tdItems>>
    /\ UNCHANGED <<run, now, inp, tables, roles, buckets, objects, functions, permissions,
                   nextApiId, disk, locals, stageLog, calls, resp, fatal>>
    /\ UNCHANGED service

TdSkip ==
    /\ pc = "td_loop"
    /\ tdItems # <<>>
    /\ Head(tdItems).name # api_name
    /\ tdItems' = Tail(tdItems)
    /\ UNCHANGED <<pc, run, now, inp, remote, disk, locals, stageLog, calls, resp, fatal,
                   hist>>
    /\ UNCHANGED service

TdFinish ==
    /\ pc = "td_loop"
    /\ tdItems = <<>>
    /\ pc' = "td_done"
    /\ UNCHANGED <<run, now, inp, remote, disk, locals, tdItems, stageLog, calls, resp,
                   fatal, hist>>
    /\ UNCHANGED service

\* ----------------------------------------------------------- specification
Next ==
    \/ StartRun
    \/ ActivateTable
    \/ CreateTable
    \/ WaitTable
    \/ CreateRole
    \/ AttachRolePolicy
    \/ PutRolePolicy
    \/ SleepPropagation
    \/ GetRole
    \/ PipInstall
    \/ MakeArchive
    \/ SelectDelivery
    \/ CreateBucket
    \/ UploadFile
    \/ CreateFunction
    \/ UpdateFunctionCode
    \/ UpdateFunctionConfiguration
    \/ CreateRestApi
    \/ GetResources
    \/ PutMethodRoot
    \/ PutIntegrationRoot
    \/ CreateResource
    \/ PutMethodProxy
    \/ PutIntegrationProxy
    \/ CreateDeployment
    \/ GetCallerIdentity
    \/ AddPermission
    \/ Cleanup
    \/ TdList
    \/ TdDelete
    \/ TdSkip
    \/ TdFinish

Spec == Init /\ [][Next]_vars

\* ------------------------------------------------------- backend/main.py
\* The handler of client c ends with `code`.
Answer(c, op, id, status_code) ==
    req' = [req EXCEPT ![c] = [op |-> op, id |-> id, fields |-> {}, at |-> "idle",
                               status |-> status_code]]

\* Client c may send a request.
Accepts(c) == req[c].at = "idle" /\ served < MaxRequests

\* POST /events: a fresh id, all fields of the body, createdAt; one put_item.
CreateEvent ==
    \E c \in Clients :
        /\ Accepts(c)
        /\ issued < MaxEvents
        /\ served' = served + 1
        /\ issued' = issued + 1
        /\ \/ /\ table' = [table EXCEPT ![issued + 1] = EventFields]
              /\ Answer(c, "create", issued + 1, 201)
           \/ /\ Answer(c, "create", issued + 1, 500)
              /\ UNCHANGED table
        /\ UNCHANGED <<pc, run, now, inp, remote, disk, locals, tdItems, stageLog, calls,
                       resp, fatal, hist>>

\* GET /events: one scan.
ListEvents ==
    \E c \in Clients :
        /\ Accepts(c)
        /\ served' = served + 1
        /\ \/ Answer(c, "list", 0, 200)
           \/ Answer(c, "list", 0, 500)
        /\ UNCHANGED <<pc, run, now, inp, remote, disk, locals, tdItems, stageLog, calls,
                       resp, fatal, hist, table, issued>>

\* GET /events/{event_id}: one get_item.
GetEvent ==
    \E c \in Clients, i \in EventIds :
        /\ Accepts(c)
        /\ served' = served + 1
        /\ \/ Answer(c, "get", i, IF table[i] = NoItem THEN 404 ELSE 200)
           \/ Answer(c, "get", i, 500)
        /\ UNCHANGED <<pc, run, now, inp, remote, disk, locals, tdItems, stageLog, calls,
                       resp, fatal, hist, table, issued>>

\* PUT /events/{event_id}, lines 106-113: get_item, 404 when there is no item,
\* 400 when the body sets no field; otherwise the handler goes on to update_item.
UpdateEventCheck ==
    \E c \in Clients, i \in EventIds, u \in Updates :
        /\ Accepts(c)
        /\ served' = served + 1
        /\ \/ IF table[i] = NoItem THEN Answer(c, "update", i, 404)
              ELSE IF u = {} THEN Answer(c, "update", i, 400)
              ELSE req' = [req EXCEPT ![c] = [op |-> "update", id |-> i, fields |-> u,
                                              at |-> "update_item", status |-> 0]]
           \/ Answer(c, "update", i, 500)
        /\ UNCHANGED <<pc, run, now, inp, remote, disk, locals, tdItems, stageLog, calls,
                       resp, fatal, hist, table, issued>>

\* update_item(Key, SET ...) carries no condition: it sets the attributes on
\* the item with this key, and makes an item of the key and these attributes
\* when there is none.
Upsert(item, id, fields) ==
    (IF item = NoItem THEN {"eventId"} ELSE item) \cup fields \cup {"updatedAt"}

\* PUT /events/{event_id}, lines 115-129.
UpdateEventWrite ==
    \E c \in Clients :
        /\ req[c].at = "update_item"
        /\ \/ /\ table' = [table EXCEPT ![req[c].id] = Upsert(@, req[c].id, req[c].fields)]
              /\ Answer(c, "update", req[c].id, 200)
           \/ /\ Answer(c, "update", req[c].id, 500)
              /\ UNCHANGED table
        /\ UNCHANGED <<pc, run, now, inp, remote, disk, locals, tdItems, stageLog, calls,
                       resp, fatal, hist, issued, served>>

\* DELETE /events/{event_id}, lines 141-143.
DeleteEventCheck ==
    \E c \in Clients, i \in EventIds :
        /\ Accepts(c)
        /\ served' = served + 1
        /\ \/ IF table[i] = NoItem THEN Answer(c, "delete", i, 404)
              ELSE req' = [req EXCEPT ![c] = [op |-> "delete", id |-> i, fields |-> {},
                                              at |-> "delete_item", status |-> 0]]
           \/ Answer(c, "delete", i, 500)
        /\ UNCHANGED <<pc, run, now, inp, remote, disk, locals, tdItems, stageLog, calls,
                       resp, fatal, hist, table, issued>>

\* DELETE /events/{event_id}, lines 145-146.
DeleteEventWrite ==
    \E c \in Clients :
        /\ req[c].at = "delete_item"
        /\ \/ /\ table' = [table EXCEPT ![req[c].id] = NoItem]
              /\ Answer(c, "delete", req[c].id, 200)
           \/ /\ Answer(c, "delete", req[c].id, 500)
              /\ UNCHANGED table
        /\ UNCHANGED <<pc, run, now, inp, remote, disk, locals, tdItems, stageLog, calls,
                       resp, fatal, hist, issued, served>>

NextService ==
    \/ CreateEvent
    \/ ListEvents
    \/ GetEvent
    \/ UpdateEventCheck
    \/ UpdateEventWrite
    \/ DeleteEventCheck
    \/ DeleteEventWrite

SpecService == Init /\ [][NextService]_vars

SpecLeftovers == InitLeftovers /\ [][Next]_vars

SpecDeployed == InitDeployed /\ [][Next]_vars

\* ------------------------------------------------------------------ claims
IsPrefix(s, t) == Len(s) <= Len(t) /\ \A i \in 1..Len(s) : s[i] = t[i]

LastCall == IF calls = <<>> THEN "" ELSE calls[Len(calls)]

Succeeded == pc = "done" /\ ~fatal

EventsApis == {a \in apis : a.name = api_name}

\* C1: in every deploy run the stages start in the order table, role, build,
\* delivery, function, gateway; none is skipped or reordered.
C1_StagesInOrder == IsPrefix(stageLog, StageOrder)

\* C2: once a call of a run has ended in a fatal error (the failure to create
\* the staging bucket included), the run issues no further remote call.
C2_NoCallAfterFatal == [][(fatal /\ fatal') => calls' = calls]_vars

\* C3: a successful run leaves exactly one function, named EventsApiFunction,
\* holding the environment and the archive of that run; when the function was
\* there before the run, the run took the update path: create answered with a
\* conflict, then the code update, then the configuration update.
C3_FunctionConverges ==
    Succeeded =>
        /\ Cardinality(functions) = 1
        /\ \A f \in functions :
              f.name = function_name /\ f.env = inp.env /\ f.code = inp.art
        /\ hist.fnAtStart # {} =>
              \E i \in 1..(Len(calls) - 2) :
                  /\ calls[i] = "create_function"
                  /\ calls[i + 1] = "update_function_code"
                  /\ calls[i + 2] = "update_function_configuration"

C3_Witness ==
    /\ Succeeded
    /\ \E f \in hist.fnAtStart : f.env = 1 /\ f.code = 1
    /\ \E f \in functions : f.env = 2 /\ f.code = 2

C5_TableIdempotent ==
    /\ Cardinality({t \in tables : t.name = table_name}) <= 1
    /\ \A t \in tables : t.key = "eventId" /\ t.billing = "PAY_PER_REQUEST"
    /\ (LastCall = "create_table" /\ resp = "ResourceInUseException") =>
          (pc = "create_role" /\ ~fatal)

C5_Witness ==
    /\ run = 2
    /\ LastCall = "create_table"
    /\ resp = "ResourceInUseException"
    /\ pc = "create_role"

\* C6: whenever the table provisioner has returned, the table is active.
C6_TableActiveOnReturn ==
    pc = "create_role" => \E t \in tables : t.name = table_name /\ t.status = "ACTIVE"

\* C7: every return of the role provisioner hands back the same ARN, that of
\* the one role of that name; "already exists" is answered by fetching the
\* role, not by an error, and no second role is created.
C7_RoleIdempotent ==
    /\ Cardinality(hist.roleArns) <= 1
    /\ Cardinality({r \in roles : r.name = role_name}) <= 1
    /\ (LastCall = "create_role" /\ resp = "EntityAlreadyExistsException") =>
          (pc = "get_role" /\ ~fatal)
    /\ (LastCall = "get_role" /\ resp = "ok") =>
          (\E r \in roles : r.name = role_name /\ r.arn = role_arn)
    /\ pc \in {"pip_install", "make_archive"} \cup AfterBuild => role_arn \in hist.roleArns

C7_Witness ==
    /\ run = 2
    /\ hist.delayed # {}
    /\ LastCall = "get_role"
    /\ resp = "ok"
    /\ role_arn \in hist.delayed

\* C8: after every successful run the function holds a permission for the
\* gateway principal whose source names the API of the URL the run returned.
C8_PermissionNamesReturnedApi ==
    Succeeded =>
        \E p \in permissions :
            /\ p.function = function_name
            /\ p.principal = gateway_principal
            /\ ApiUrl(p.sourceApi) = api_url

\* C9: without teardown, as many APIs named EventsApi exist as create_rest_api
\* calls have succeeded, each under its own identifier, and no two returned
\* invocation URLs are equal.
C9_GatewayAccumulates ==
    /\ hist.teardowns = 0 => Cardinality(EventsApis) = hist.apiCreates
    /\ \A a, b \in apis : a.id = b.id => a = b
    /\ \A i, j \in 1..Len(hist.urls) : i # j => hist.urls[i] # hist.urls[j]

C9_Witness ==
    /\ hist.teardowns = 0
    /\ Len(hist.urls) = 2
    /\ Cardinality(EventsApis) = 2

\* C10: after a run that completed, the archive is gone; the archive is on
\* disk only during a run between the build and the deletion, or after a run
\* that failed between those two points.
C10_CleanupInvariant ==
    /\ pc = "done" => ~zipFile.exists
    /\ zipFile.exists => (pc \in AfterBuild \/ hist.leaked)

C10_Witness ==
    /\ Succeeded
    /\ ~zipFile.exists
    /\ "create_function" \in {calls[i] : i \in 1..Len(calls)}
LastStage == IF stageLog = <<>> THEN "" ELSE stageLog[Len(stageLog)]

\* The dependency installation of this run has failed.
InstallFailed == fatal /\ LastStage = "build"

CallSet == {calls[i] : i \in 1..Len(calls)}

\* C11 as stated: when the dependency installation fails, the run has issued no
\* remote call at all.
C11_BuildFailureTouchesNothing ==
    InstallFailed => calls = <<>>

\* C11 as amended: when the dependency installation fails, the run stops, and
\* the only calls it has issued are those of the table and role provisioners:
\* buckets, objects, functions, permissions and gateway APIs are as before the run.
C11_BuildFailureSparesCompute ==
    InstallFailed =>
        /\ pc = "failed"
        /\ CallSet \subseteq {"create_table", "wait_table_exists", "create_role",
                              "attach_role_policy", "put_role_policy", "get_role"}
        /\ buckets = hist.bucketsAtStart
        /\ objects = hist.objectsAtStart
        /\ functions = hist.fnAtStart
        /\ permissions = hist.permsAtStart
        /\ apis = hist.apisAtStart

C11_Witness ==
    /\ InstallFailed
    /\ pc = "failed"
    /\ functions # {}
    /\ "get_role" \in CallSet
\* C12: when add_permission answers that the permission exists, the provisioner
\* does not fail: it returns the URL of the API created in this run, and the
\* driver deletes the archive before it reports completion.
C12_PermissionConflictNotFatal ==
    (LastCall = "add_permission" /\ resp = "ResourceConflictException") =>
        /\ pc \in {"cleanup", "done"}
        /\ api_url = ApiUrl(api_id)
        /\ \E a \in apis \ hist.apisAtStart : a.id = api_id /\ a.name = api_name
        /\ pc = "done" => ~zipFile.exists

C12_Witness ==
    /\ LastCall = "add_permission"
    /\ resp = "ResourceConflictException"
    /\ pc = "done"
    /\ ~fatal
OtherApis == {a \in apis : a.name # api_name}

\* C13: after the teardown helper completes, no API named EventsApi exists,
\* however many earlier runs left behind, and APIs with other names are
\* untouched; a deploy run started right after it and completed ends with
\* exactly one API named EventsApi.
C13_TeardownRemovesAll ==
    /\ pc = "td_done" => (EventsApis = {} /\ BareApi(1, "OtherApi") \in OtherApis)
    /\ (Succeeded /\ hist.afterTeardown) => Cardinality(EventsApis) = 1
\* The run started on a function whose code and configuration are of
\* different releases.
StartedHalfUpdated == \E f \in hist.fnAtStart : f.code # f.env

\* C14: when the code update succeeded and the configuration update fails,
\* the run fails and the function has the new code and the configuration it
\* had before the run; a later run that succeeds, started on such a function,
\* leaves it with the code and the configuration of that run.
C14_PartialUpdateThenConverge ==
    /\ (LastCall = "update_function_configuration" /\ resp = "error") =>
           /\ pc = "failed"
           /\ fatal
           /\ \A f \in functions :
                  /\ f.code = inp.art
                  /\ \E g \in hist.fnAtStart : g.name = f.name /\ f.env = g.env
    /\ (Succeeded /\ StartedHalfUpdated) =>
           \A f \in functions : f.code = inp.art /\ f.env = inp.env

C14_Witness ==
    /\ Succeeded
    /\ \E f \in hist.fnAtStart : f.code = 2 /\ f.env = 1
    /\ \E f \in functions : f.code = 1 /\ f.env = 1

C14_WitnessFailure ==
    /\ LastCall = "update_function_configuration"
    /\ resp = "error"
    /\ \E f \in functions : f.code = 2 /\ f.env = 1
\* The calls of create_api_gateway, in the order of its code.
GatewaySequence ==
    <<"create_rest_api", "get_resources", "put_method(root)", "put_integration(root)",
      "create_resource", "put_method(proxy)", "put_integration(proxy)",
      "create_deployment", "get_caller_identity", "add_permission">>

\* The calls this run has issued from create_rest_api on.
GatewayPart ==
    IF \E i \in 1..Len(calls) : calls[i] = "create_rest_api"
    THEN SubSeq(calls, CHOOSE i \in 1..Len(calls) : calls[i] = "create_rest_api",
                Len(calls))
    ELSE <<>>

NotIdentity(c) == c # "get_caller_identity"

\* C15: the gateway provisioner issues create API, get root resource, method
\* and integration on the root, create child resource, method and integration
\* on the child, create deployment, add permission in this order, one after
\* the other (the account lookup precedes the permission); a call that fails
\* otherwise than with the permission conflict is the last call of the run.
C15_GatewayCallOrder ==
    /\ IsPrefix(GatewayPart, GatewaySequence)
    /\ IsPrefix(SelectSeq(GatewayPart, NotIdentity), SelectSeq(GatewaySequence, NotIdentity))
    /\ pc \in {"get_resources", "put_method_root", "put_integration_root",
               "create_resource", "put_method_proxy", "put_integration_proxy",
               "create_deployment", "get_caller_identity", "add_permission"} =>
           /\ resp = "ok"
           /\ GatewayPart # <<>>
           /\ GatewaySequence[Len(GatewayPart) + 1] =
                  (CASE pc = "put_method_root" -> "put_method(root)"
                     [] pc = "put_integration_root" -> "put_integration(root)"
                     [] pc = "put_method_proxy" -> "put_method(proxy)"
                     [] pc = "put_integration_proxy" -> "put_integration(proxy)"
                     [] OTHER -> pc)
    /\ (GatewayPart # <<>> /\ resp # "ok"
           /\ ~(LastCall = "add_permission" /\ resp = "ResourceConflictException")) =>
           pc = "failed"

C15_Witness ==
    /\ Succeeded
    /\ GatewayPart = GatewaySequence
    /\ \E a \in apis : a.id = api_id /\ a.stage = stage_name
\* C16: when the provisioner is about to issue the deployment, the root and
\* the {proxy+} child of its API each have an ANY method without authorization
\* and an AWS_PROXY integration; both integrations have the same target, built
\* from the reference the function provisioner returned to main in this run,
\* which, when it is a reference, is the ARN of the deployed function.
C16_BothRoutesToFunction ==
    pc = "create_deployment" =>
        \E a \in apis :
            /\ a.id = api_id
            /\ a.rootMethod = [verb |-> "ANY", auth |-> "NONE"]
            /\ a.proxy = "{proxy+}"
            /\ a.proxyMethod = a.rootMethod
            /\ a.rootInt.type = "AWS_PROXY"
            /\ a.rootInt.uri = LambdaUri(lambda_arn)
            /\ a.proxyInt = a.rootInt
            /\ lambda_arn # NoneArn =>
                   /\ lambda_arn = FunctionArn(function_name)
                   /\ \E f \in functions : f.name = function_name
                   /\ "create_function" \in CallSet

C16_Witness ==
    /\ pc = "create_deployment"
    /\ lambda_arn = FunctionArn(function_name)
    /\ \E a \in apis : a.id = api_id /\ a.proxyInt.uri = LambdaUri(lambda_arn)
\* Positions of main after create_lambda_role has returned, in a run that goes on.
RoleReturned == {"pip_install", "make_archive", "done"} \cup AfterBuild

TheRole == CHOOSE r \in roles : r.name = role_name

HasManaged(r) == r.managed = {"AWSLambdaBasicExecutionRole"}

HasInline(r) ==
    /\ r.inline.actions = {"dynamodb:PutItem", "dynamodb:GetItem", "dynamodb:UpdateItem",
                           "dynamodb:DeleteItem", "dynamodb:Scan"}
    /\ r.inline.resource = "EventsTable"

\* This run created the role.
CreationPath == "create_role" \in CallSet /\ "get_role" \notin CallSet

\* C17: on the creation path the managed policy is attached before the inline
\* policy is put, the inline policy allows exactly the five actions on
\* EventsTable, both are in place before the delay, and the reference reaches
\* main only after the delay (it was never handed out before).
C17_CreationPathOrder ==
    /\ pc \in {"attach_role_policy", "put_role_policy", "sleep"} =>
           /\ CreationPath
           /\ role_arn = TheRole.arn
           /\ role_arn \notin hist.roleArns
           /\ role_arn \notin hist.delayed
    /\ pc = "attach_role_policy" => (~HasManaged(TheRole) /\ TheRole.inline = NoPolicy)
    /\ pc = "put_role_policy" => (HasManaged(TheRole) /\ TheRole.inline = NoPolicy)
    /\ pc = "sleep" => (HasManaged(TheRole) /\ HasInline(TheRole))
    /\ (pc \in RoleReturned /\ CreationPath) =>
           /\ HasManaged(TheRole)
           /\ HasInline(TheRole)
           /\ role_arn = TheRole.arn
           /\ role_arn \in hist.delayed
           /\ \E i \in 1..(Len(calls) - 2) :
                  /\ calls[i] = "create_role"
                  /\ calls[i + 1] = "attach_role_policy"
                  /\ calls[i + 2] = "put_role_policy"

C17_Witness ==
    /\ pc = "pip_install"
    /\ CreationPath
    /\ role_arn \in hist.delayed
    /\ HasInline(TheRole)
\* C18: the function provisioner is called only with a role whose creation
\* was followed by the propagation delay.
C18_DelayBeforeUse ==
    pc \in {"create_function", "update_function_code", "update_function_configuration"} =>
        role_arn \in hist.delayed

Names(S) == {x.name : x \in S}

Ids(S) == {x.id : x \in S}

\* C19: no step of a deploy run removes a table, a role, a bucket, a function
\* or a gateway API, so these sets only grow from run to run; a run that has
\* failed has left in place what was there at its start and what it created.
C19_DeployOnlyGrows ==
    /\ [](pc \in {"failed", "done"} =>
            /\ hist.bucketsAtStart \subseteq buckets
            /\ Names(hist.fnAtStart) \subseteq Names(functions)
            /\ hist.apisAtStart \subseteq apis
            /\ \A c \in CallSet :
                   /\ c = "create_role" => table_name \in Names(tables)
                   /\ c = "attach_role_policy" => role_name \in Names(roles)
                   /\ c = "upload_file" => bucket_name \in buckets
                   /\ c = "get_resources" => api_id \in Ids(apis))
    /\ [][pc \notin {"td_loop"} =>
            /\ Names(tables) \subseteq Names(tables')
            /\ Names(roles) \subseteq Names(roles')
            /\ buckets \subseteq buckets'
            /\ Names(functions) \subseteq Names(functions')
            /\ Ids(apis) \subseteq Ids(apis')]_vars

C19_Witness ==
    /\ pc = "failed"
    /\ LastCall = "upload_file"
    /\ bucket_name \in buckets \ hist.bucketsAtStart
    /\ Names(tables) = {table_name}
    /\ Names(roles) = {role_name}
    /\ run = 2

\* C20: whenever the role provisioner has returned a reference, the role has
\* the managed execution policy attached and the inline table policy in place.
C20_ReturnedRoleHasPolicies ==
    pc \in RoleReturned => (HasManaged(TheRole) /\ HasInline(TheRole))
\* C21: under any interleaving of the requests, every item of the table has
\* all attributes of a created event (an update never brings a deleted id
\* back as a partial item), and a request answered with 404 leaves the table
\* as it was.
C21_ItemsStayWhole ==
    /\ [](\A i \in EventIds : table[i] # NoItem => EventFields \subseteq table[i])
    /\ [][\A c \in Clients :
             (req'[c] # req[c] /\ req'[c].status = 404) => table' = table]_vars
====
